---- MODULE Spec2Model ----
(***************************************************************************)
(* Cart resolution and mutation engine of the marbelle backend             *)
(* (orders/views/cart.py, orders/models.py, core/services/session.py).     *)
(*                                                                         *)
(* The relational store is modelled as sets of rows. Every ORM statement   *)
(* of a request handler is a function from the store and the request's     *)
(* local state to their successors. Under Spec requests are served one at  *)
(* a time, a handler running from its first statement to its response in   *)
(* one action; under ConcSpec two requests are in flight and interleave    *)
(* between statements, as PostgreSQL (READ COMMITTED) lets them.           *)
(* Money is counted in cents.                                              *)
(***************************************************************************)
EXTENDS Integers, FiniteSets, Sequences, TLC

VARIABLES products, carts, items, sessions, nextCartId, nextItemId,
          req, nreq,
          accounts, tokens, nextTokenId, last,
          addresses, nextAddressId

\* The user accounts and their tokens (users/models.py), and the result of
\* the last account operation.
authVars == <<accounts, tokens, nextTokenId, last>>

\* The addresses of the users (users/models.py, Address).
addrVars == <<addresses, nextAddressId>>

\* The catalogue, the carts and the sessions.
cartVars == <<products, carts, items, sessions, nextCartId, nextItemId, req>>

vars == <<products, carts, items, sessions, nextCartId, nextItemId,
          req, nreq, accounts, tokens, nextTokenId, last,
          addresses, nextAddressId>>

(***************************************************************************)
(* Bounds of the model.                                                    *)
(***************************************************************************)
MaxRequests == 2
MaxConcRequests == 3
MaxAuthOps == 5
MaxAddressOps == 11

(***************************************************************************)
(* Program constants.                                                      *)
(***************************************************************************)
MinQuantity == 1
MaxQuantity == 99
MAX_ADDRESSES_PER_USER == 10
TaxRatePercent == 9

None == "None"
Users == {"u1"}
Tokens == {"s1", "s2"}
\* The keys the session store can allocate.
SessionKeyPool == {"s2"}
ProductIds == {1, 2, 3}
PriceSet == {50, 75}
StockSet == {0, 1}
Slots == {1, 2}
\* The products whose price, respectively stock, the staff edits.
RepricedProducts == {1}
RestockedProducts == {2}

NoProduct == [id |-> 0, price |-> 0, stock_quantity |-> 0, is_active |-> FALSE]
NoItem == [id |-> 0, cart |-> 0, product |-> 0, quantity |-> 0, unit_price |-> 0]
NoBody == [quantity |-> 0, unit_price |-> 0, item_count |-> 0,
           subtotal |-> 0, tax_amount |-> 0, total |-> 0]

(***************************************************************************)
(* Raw request values of the "quantity" field, as the JSON parser hands    *)
(* them to the view: an integer, a float (n halves, so n = 3 is 1.5), a    *)
(* non-numeric string, JSON null, or the key missing.                      *)
(***************************************************************************)
RawInt(n) == [kind |-> "int", n |-> n]
RawFloat(n) == [kind |-> "float", n |-> n]
RawStr == [kind |-> "str", n |-> 0]
RawNull == [kind |-> "null", n |-> 0]
RawMissing == [kind |-> "missing", n |-> 0]

\* Python's int(): identity on int, truncation toward zero on float,
\* ValueError on a non-numeric string, TypeError on None.
PyInt(raw) ==
    CASE raw.kind = "int" -> [ok |-> TRUE, v |-> raw.n]
      [] raw.kind = "float" ->
            [ok |-> TRUE, v |-> IF raw.n >= 0 THEN raw.n \div 2 ELSE -((-raw.n) \div 2)]
      [] OTHER -> [ok |-> FALSE, v |-> 0]

\* The value denotes a whole number (what "is an integer" means for a caller).
IsIntegral(raw) ==
    \/ raw.kind = "int"
    \/ raw.kind = "float" /\ raw.n % 2 = 0

(***************************************************************************)
(* Pricing (orders/models.py).                                             *)
(***************************************************************************)
CartItems(its, c) == {i \in its : i.cart = c}

\* CartItem.subtotal
ItemSubtotal(i) == i.quantity * i.unit_price

\* Variant: item_count counting the lines instead of the units.
SumQuantityCountsLines(S) == Cardinality(S)

RECURSIVE SumQuantity(_)
SumQuantity(S) ==
    IF S = {} THEN 0
    ELSE LET x == CHOOSE y \in S : TRUE IN x.quantity + SumQuantity(S \ {x})

RECURSIVE SumSubtotal(_)
SumSubtotal(S) ==
    IF S = {} THEN 0
    ELSE LET x == CHOOSE y \in S : TRUE IN ItemSubtotal(x) + SumSubtotal(S \ {x})

ItemCount(its, c) == SumQuantity(CartItems(its, c))

Subtotal(its, c) == SumSubtotal(CartItems(its, c))

\* Decimal.quantize(Decimal("0.01")) under the default context: ROUND_HALF_EVEN.
\* x is a non-negative amount in 1/100 of a cent.
QuantizeCents(x) ==
    LET q == x \div 100
        r == x % 100
    IN  IF r > 50 THEN q + 1
        ELSE IF r < 50 THEN q
        ELSE IF q % 2 = 0 THEN q ELSE q + 1

TaxAmount(its, c) == QuantizeCents(Subtotal(its, c) * TaxRatePercent)

Total(its, c) == Subtotal(its, c) + TaxAmount(its, c)

Totals(its, c) ==
    [item_count |-> ItemCount(its, c), subtotal |-> Subtotal(its, c),
     tax_amount |-> TaxAmount(its, c), total |-> Total(its, c)]

(***************************************************************************)
(* Database constraints (orders/models.py).                                *)
(***************************************************************************)
\* Variant: the table without the check constraint.
CartCheckConstraintDropped(row) == TRUE

\* Cart.Meta.constraints[0]: user IS NOT NULL OR session_key IS NOT NULL.
CartCheckConstraint(row) == row.user # None \/ row.session_key # None

\* Variant: the table without the partial unique index on session_key.
CartUniqueWithoutSessionIndex(cs, row) ==
    row.user # None => ~ \E c \in cs : c.user = row.user

\* Cart.user is a OneToOneField (unique); Cart.Meta.constraints[1] makes
\* session_key unique among rows with session_key NOT NULL and user NULL.
CartUniqueConstraints(cs, row) ==
    /\ row.user # None => ~ \E c \in cs : c.user = row.user
    /\ (row.session_key # None /\ row.user = None) =>
          ~ \E c \in cs : c.session_key = row.session_key /\ c.user = None

\* Variant: CartItem without unique_together.
ItemUniqueTogetherDropped(its, row) == TRUE

\* CartItem.Meta.unique_together = [["cart", "product"]].
ItemUniqueTogether(its, row) ==
    ~ \E i \in its : i.cart = row.cart /\ i.product = row.product /\ i.id # row.id

(***************************************************************************)
(* Queries.                                                                *)
(***************************************************************************)
\* Variant: the guest lookup filtering on carts that have an owner.
CartLookupOwnedOnly(cs, user, session_key) ==
    IF user # None THEN {c \in cs : c.user = user}
    ELSE {c \in cs : c.session_key = session_key /\ c.user # None}

\* Cart.objects.get(user=u) / Cart.objects.get(session_key=k, user=None).
CartLookup(cs, user, session_key) ==
    IF user # None THEN {c \in cs : c.user = user}
    ELSE {c \in cs : c.session_key = session_key /\ c.user = None}

\* CartItem.objects.get(cart=cart, product=product).
ItemByProduct(its, c, p) == {i \in its : i.cart = c /\ i.product = p}

\* Variant: the lookup by id alone, without the cart filter.
ItemByIdAnyCart(its, c, id) == {i \in its : i.id = id}

\* CartItem.objects.get(id=item_id, cart=cart).
ItemById(its, c, id) == {i \in its : i.id = id /\ i.cart = c}

\* Product.objects.get(id=product_id, is_active=True).
ActiveProduct(ps, pid) ==
    IF pid \in DOMAIN ps /\ ps[pid].is_active
    THEN [id |-> pid, price |-> ps[pid].price,
          stock_quantity |-> ps[pid].stock_quantity, is_active |-> TRUE]
    ELSE NoProduct

\* Product.in_stock.
InStock(p) == p.stock_quantity > 0

(***************************************************************************)
(* Initial state: an empty cart store and a catalogue of three products,   *)
(* the third one inactive.                                                 *)
(***************************************************************************)
\* No account operation has run yet.
NoResult == [op |-> "none", ok |-> FALSE, token |-> 0, user |-> 0]

IdleReq ==
    [pc |-> "idle", op |-> "none", user |-> None, header |-> None, cookie |-> None,
     product_id |-> 0, raw |-> RawMissing, quantity |-> 0, item_id |-> 0,
     session_key |-> None, cart |-> 0, product |-> NoProduct, cart_item |-> NoItem,
     created |-> FALSE, status |-> 0, error |-> "none", avail |-> 0,
     header_out |-> None, body |-> NoBody,
     \* Calls of request.session.create() and request.session.save().
     creates |-> 0, saves |-> 0,
     \* History, for stating properties: the cart items at arrival, how the
     \* cart was obtained ("found", "created", or "raced" when the INSERT lost
     \* a race), and the slots whose request was in flight at arrival.
     items0 |-> {}, cart_how |-> "none", overlap |-> {}]

Init ==
    /\ products = (1 :> [price |-> 50, stock_quantity |-> 120, is_active |-> TRUE]) @@
                  (2 :> [price |-> 75, stock_quantity |-> 1, is_active |-> TRUE]) @@
                  (3 :> [price |-> 75, stock_quantity |-> 120, is_active |-> FALSE])
    /\ carts = {}
    /\ items = {}
    /\ sessions = {}
    /\ nextCartId = 1
    /\ nextItemId = 1
    /\ req = [r \in Slots |-> IdleReq]
    /\ nreq = 0
    /\ accounts = {}
    /\ tokens = {}
    /\ nextTokenId = 1
    /\ last = NoResult
    /\ addresses = {}
    /\ nextAddressId = 1

(***************************************************************************)
(* Request inputs.                                                         *)
(***************************************************************************)
Ctx(u, h, c) == [user |-> u, header |-> h, cookie |-> c]

\* An authenticated caller (whose request also carries a guest header and a
\* cookie), a guest with the header only, with the cookie only, with both,
\* and a first-time visitor.
Contexts ==
    {Ctx("u1", "s1", "s2"), Ctx(None, "s1", None), Ctx(None, None, "s2"),
     Ctx(None, "s1", "s2"), Ctx(None, None, None)}

QuantityInputs ==
    {RawInt(-1), RawInt(0), RawInt(1), RawInt(98), RawInt(99), RawInt(100),
     RawFloat(3), RawStr}

ProductIdInputs == {1, 2, 3, 4}

ItemIdInputs == {1, 2}

ConcContexts == {Ctx("u1", None, None), Ctx(None, "s1", None)}

ConcQuantityInputs == {RawInt(1), RawInt(98)}

ConcProductIdInputs == {1}

ConcItemIdInputs == {1}

(***************************************************************************)
(* The store, and the outcome of a statement: the store and the request's  *)
(* local state after it.                                                   *)
(***************************************************************************)
DB ==
    [products |-> products, carts |-> carts, items |-> items, sessions |-> sessions,
     nextCartId |-> nextCartId, nextItemId |-> nextItemId]

Out(db, rq) == [db |-> db, rq |-> rq]

(***************************************************************************)
(* Responses.                                                              *)
(***************************************************************************)
\* ResponseHandler.error(message, status_code): the handler returns.
ErrorResponse(rq, status, error, avail) ==
    [rq EXCEPT !.pc = "done", !.status = status, !.error = error, !.avail = avail]

\* A success response; X-Session-ID is set when session_key is truthy.
SuccessResponse(rq, body) ==
    [rq EXCEPT !.pc = "done", !.status = 200, !.body = body,
               !.header_out = rq.session_key]

\* quantity = int(quantity); 1 <= quantity <= 99 (add_to_cart, update_cart_item).
ValidateQuantity(rq, raw, nextpc) ==
    LET parsed == PyInt(raw) IN
    IF ~parsed.ok THEN ErrorResponse(rq, 400, "InvalidQuantityValue", 0)
    ELSE IF parsed.v < MinQuantity \/ parsed.v > MaxQuantity
         THEN ErrorResponse(rq, 400, "InvalidQuantityRange", 0)
    ELSE [rq EXCEPT !.quantity = parsed.v, !.pc = nextpc]

(***************************************************************************)
(* A request arrives: the handler reads request.data and validates it.     *)
(* items0 remembers the cart items at arrival.                             *)
(***************************************************************************)
NewRequest(db, op, ctx, pid, raw, iid) ==
    [IdleReq EXCEPT !.op = op, !.user = ctx.user, !.header = ctx.header,
                    !.cookie = ctx.cookie, !.product_id = pid, !.raw = raw,
                    !.item_id = iid, !.items0 = db.items]

BeginGet(db, ctx) ==
    [NewRequest(db, "get", ctx, 0, RawMissing, 0) EXCEPT !.pc = "resolve"]

BeginAdd(db, ctx, pid, raw) ==
    LET rq == NewRequest(db, "add", ctx, pid, raw, 0)
        \* quantity = data.get("quantity", 1)
        given == IF raw.kind = "missing" THEN RawInt(1) ELSE raw
    IN  IF pid = 0 THEN ErrorResponse(rq, 400, "ProductIdRequired", 0)
        ELSE ValidateQuantity(rq, given, "get_product")

BeginUpdate(db, ctx, iid, raw) ==
    LET rq == NewRequest(db, "update", ctx, 0, raw, iid)
    IN  IF raw.kind \in {"missing", "null"}
        THEN ErrorResponse(rq, 400, "QuantityRequired", 0)
        ELSE ValidateQuantity(rq, raw, "resolve")

BeginRemove(db, ctx, iid) ==
    [NewRequest(db, "remove", ctx, 0, RawMissing, iid) EXCEPT !.pc = "resolve"]

BeginClear(db, ctx) ==
    [NewRequest(db, "clear", ctx, 0, RawMissing, 0) EXCEPT !.pc = "resolve"]

(***************************************************************************)
(* add_to_cart: product lookup and stock checks.                           *)
(***************************************************************************)
AddGetProduct(db, rq) ==
    LET p == ActiveProduct(db.products, rq.product_id) IN
    {Out(db,
         IF p = NoProduct THEN ErrorResponse(rq, 404, "ProductNotFound", 0)
         ELSE IF ~InStock(p) THEN ErrorResponse(rq, 400, "OutOfStock", 0)
         ELSE IF p.stock_quantity < rq.quantity
              THEN ErrorResponse(rq, 400, "InsufficientStock", p.stock_quantity)
         ELSE [rq EXCEPT !.product = p, !.pc = "resolve"])}

(***************************************************************************)
(* get_or_create_cart (views/cart.py): session resolution and the SELECT   *)
(* of Cart.objects.get_or_create.                                          *)
(***************************************************************************)
\* A resolved session key (or None), the session store afterwards, and the
\* number of create() and save() calls made.
SessionKey(key, sess, creates, saves) ==
    [key |-> key, sessions |-> sess, creates |-> creates, saves |-> saves]

\* Variant: the cookie session's key taking precedence over the header.
SessionKeyCookieFirst(rq, sess) ==
    IF rq.cookie # None THEN {SessionKey(rq.cookie, sess, 0, 0)}
    ELSE IF rq.header # None THEN {SessionKey(rq.header, sess, 0, 0)}
    ELSE {SessionKey(k, sess \cup {k}, 1, n) : k \in SessionKeyPool \ sess, n \in {0, 1}}
         \cup {SessionKey(None, sess, 1, 1)}

\* Variant: giving up after create() without the forced save.
SessionKeyNoForcedSave(rq, sess) ==
    IF rq.header # None THEN {SessionKey(rq.header, sess, 0, 0)}
    ELSE IF rq.cookie # None THEN {SessionKey(rq.cookie, sess, 0, 0)}
    ELSE {SessionKey(k, sess \cup {k}, 1, 0) : k \in SessionKeyPool \ sess}
         \cup {SessionKey(None, sess, 1, 0)}

\* Outcomes of resolving the guest session key: the X-Session-ID header if
\* present, else the cookie session's key, else request.session.create()
\* followed, if there is still no key, by request.session.save(). Each of
\* the two calls either allocates a key that the session store does not hold
\* yet, or yields none (the failure the code's second "if not session_key"
\* is for).
SessionKeyOutcomes(rq, sess) ==
    IF rq.header # None THEN {SessionKey(rq.header, sess, 0, 0)}
    ELSE IF rq.cookie # None THEN {SessionKey(rq.cookie, sess, 0, 0)}
    ELSE {SessionKey(k, sess \cup {k}, 1, n) : k \in SessionKeyPool \ sess, n \in {0, 1}}
         \cup {SessionKey(None, sess, 1, 1)}

\* Where a handler continues once it has its cart.
AfterCart(op) ==
    CASE op = "get" -> "totals"
      [] op = "clear" -> "clear"
      [] OTHER -> "item_get"

\* The result of the SELECT: the cart found, or on to the INSERT. get()
\* raises MultipleObjectsReturned on several rows, which the views' outer
\* "except Exception" turns into a 500.
CartFound(rq, found, key) ==
    IF Cardinality(found) > 1
    THEN ErrorResponse([rq EXCEPT !.session_key = key], 500, "InternalError", 0)
    ELSE IF found # {}
    THEN [rq EXCEPT !.session_key = key, !.cart = (CHOOSE c \in found : TRUE).id,
                    !.cart_how = "found", !.pc = AfterCart(rq.op)]
    ELSE [rq EXCEPT !.session_key = key, !.pc = "cart_create"]

\* Variant: a header token taking precedence over authentication.
ResolveCartHeaderFirst(db, rq) ==
    IF rq.user # None /\ rq.header = None
    THEN {Out(db, CartFound(rq, CartLookup(db.carts, rq.user, None), None))}
    ELSE {Out([db EXCEPT !.sessions = o.sessions],
              CartFound([rq EXCEPT !.creates = o.creates, !.saves = o.saves],
                        CartLookup(db.carts, None, o.key), o.key)) :
          o \in SessionKeyOutcomes(rq, db.sessions)}

ResolveCart(db, rq) ==
    IF rq.user # None
    THEN \* request.user.is_authenticated
         {Out(db, CartFound(rq, CartLookup(db.carts, rq.user, None), None))}
    ELSE {Out([db EXCEPT !.sessions = o.sessions],
              CartFound([rq EXCEPT !.creates = o.creates, !.saves = o.saves],
                        CartLookup(db.carts, None, o.key), o.key)) :
          o \in SessionKeyOutcomes(rq, db.sessions)}

\* The INSERT of Cart.objects.get_or_create. An IntegrityError makes
\* get_or_create SELECT again; if that finds no row the error propagates and
\* the view answers 500.
CartCreate(db, rq) ==
    LET row == [id |-> db.nextCartId, user |-> rq.user, session_key |-> rq.session_key]
        found == CartLookup(db.carts, rq.user, rq.session_key)
    IN  IF CartCheckConstraint(row) /\ CartUniqueConstraints(db.carts, row)
        THEN {Out([db EXCEPT !.carts = @ \cup {row}, !.nextCartId = @ + 1],
                  [rq EXCEPT !.cart = row.id, !.cart_how = "created",
                             !.pc = AfterCart(rq.op)])}
        ELSE {Out(db, IF Cardinality(found) = 1
                      THEN [rq EXCEPT !.cart = (CHOOSE c \in found : TRUE).id,
                                      !.cart_how = "raced", !.pc = AfterCart(rq.op)]
                      ELSE ErrorResponse(rq, 500, "InternalError", 0))}

(***************************************************************************)
(* Cart item statements.                                                   *)
(***************************************************************************)
\* Variant: the merge path without the cap on the combined quantity.
MergeChecksNoCap(rq, line) ==
    LET new_quantity == line.quantity + rq.quantity IN
    IF rq.product.stock_quantity < new_quantity
    THEN ErrorResponse([rq EXCEPT !.cart_item = line], 400, "InsufficientStock",
                       rq.product.stock_quantity)
    ELSE [rq EXCEPT !.cart_item = line, !.created = FALSE, !.pc = "item_save"]

\* Variant: the merge path checking the stock against the increment only.
MergeChecksIncrementOnly(rq, line) ==
    LET new_quantity == line.quantity + rq.quantity IN
    IF new_quantity > MaxQuantity
    THEN ErrorResponse([rq EXCEPT !.cart_item = line], 400, "QuantityLimitExceeded", 0)
    ELSE IF rq.product.stock_quantity < rq.quantity
    THEN ErrorResponse([rq EXCEPT !.cart_item = line], 400, "InsufficientStock",
                       rq.product.stock_quantity)
    ELSE [rq EXCEPT !.cart_item = line, !.created = FALSE, !.pc = "item_save"]

\* add_to_cart, the "if not created" branch: the checks on the combined
\* quantity, made on the line as the request read it.
MergeChecks(rq, line) ==
    LET new_quantity == line.quantity + rq.quantity IN
    IF new_quantity > MaxQuantity
    THEN ErrorResponse([rq EXCEPT !.cart_item = line], 400, "QuantityLimitExceeded", 0)
    ELSE IF rq.product.stock_quantity < new_quantity
    THEN ErrorResponse([rq EXCEPT !.cart_item = line], 400, "InsufficientStock",
                       rq.product.stock_quantity)
    ELSE [rq EXCEPT !.cart_item = line, !.created = FALSE, !.pc = "item_save"]

\* The SELECT of CartItem.objects.get_or_create(cart, product) in add_to_cart.
AddItemGet(db, rq) ==
    LET found == ItemByProduct(db.items, rq.cart, rq.product.id) IN
    IF Cardinality(found) > 1 THEN ErrorResponse(rq, 500, "InternalError", 0)
    ELSE IF found # {} THEN MergeChecks(rq, CHOOSE i \in found : TRUE)
    ELSE [rq EXCEPT !.pc = "item_create"]

\* CartItem.objects.get(id=item_id, cart=cart) in update_cart_item and
\* remove_cart_item, followed in update_cart_item by the stock check.
OwnItemGet(db, rq) ==
    LET found == ItemById(db.items, rq.cart, rq.item_id) IN
    IF found = {} THEN ErrorResponse(rq, 404, "ItemNotFound", 0)
    ELSE LET line == CHOOSE i \in found : TRUE
             stock == db.products[line.product].stock_quantity
         IN  IF rq.op = "remove"
             THEN [rq EXCEPT !.cart_item = line, !.pc = "item_delete"]
             ELSE IF stock < rq.quantity
             THEN ErrorResponse([rq EXCEPT !.cart_item = line], 400,
                                "InsufficientStock", stock)
             ELSE [rq EXCEPT !.cart_item = line, !.pc = "item_save"]

\* Variant: the merge path of add_to_cart writing the combined quantity
\* before it tests it.
ItemGetWritesFirst(db, rq) ==
    LET found == ItemByProduct(db.items, rq.cart, rq.product.id)
        written == {[i EXCEPT !.quantity = @ + rq.quantity] : i \in found}
    IN  IF rq.op = "add"
        THEN {Out([db EXCEPT !.items = (@ \ found) \cup written], AddItemGet(db, rq))}
        ELSE {Out(db, OwnItemGet(db, rq))}

ItemGet(db, rq) ==
    {Out(db, IF rq.op = "add" THEN AddItemGet(db, rq) ELSE OwnItemGet(db, rq))}

\* Variant: save() taking the product's current price every time.
SaveUnitPriceRefreeze(unit_price, product_price) == product_price

\* CartItem.save: "if not self.unit_price: self.unit_price = self.product.price".
SaveUnitPrice(unit_price, product_price) ==
    IF unit_price = 0 THEN product_price ELSE unit_price

\* The INSERT of CartItem.objects.get_or_create with
\* defaults = {quantity, unit_price: product.price}. On an IntegrityError
\* (unique_together) get_or_create SELECTs the line another request created.
ItemCreate(db, rq) ==
    LET row == [id |-> db.nextItemId, cart |-> rq.cart, product |-> rq.product.id,
                quantity |-> rq.quantity,
                unit_price |-> SaveUnitPrice(rq.product.price,
                                             db.products[rq.product.id].price)]
        found == ItemByProduct(db.items, rq.cart, rq.product.id)
    IN  IF ItemUniqueTogether(db.items, row)
        THEN {Out([db EXCEPT !.items = @ \cup {row}, !.nextItemId = @ + 1],
                  [rq EXCEPT !.cart_item = row, !.created = TRUE, !.pc = "totals"])}
        ELSE {Out(db, MergeChecks(rq, CHOOSE i \in found : TRUE))}

\* Variant: the merge path overwriting the quantity instead of summing.
\* Variant: the requested value is added to the line's quantity in every
\* handler.
NewQuantityAlwaysAdds(rq) == rq.cart_item.quantity + rq.quantity

NewQuantityOverwrite(rq) == rq.quantity

\* The quantity a handler assigns before cart_item.save(): the sum on the
\* merge path of add_to_cart, the requested value in update_cart_item.
NewQuantity(rq) ==
    IF rq.op = "add" THEN rq.cart_item.quantity + rq.quantity ELSE rq.quantity

\* cart_item.save(): UPDATE of the row by primary key with the fields of the
\* in-memory object; when no row has that key any more, Django INSERTs it.
ItemSave(db, rq) ==
    LET row == [rq.cart_item EXCEPT
                  !.quantity = NewQuantity(rq),
                  !.unit_price = SaveUnitPrice(rq.cart_item.unit_price,
                                               db.products[rq.cart_item.product].price)]
        others == {i \in db.items : i.id # row.id}
    IN  IF ItemUniqueTogether(db.items, row)
        THEN {Out([db EXCEPT !.items = others \cup {row}],
                  [rq EXCEPT !.cart_item = row, !.pc = "totals"])}
        ELSE {Out(db, ErrorResponse(rq, 500, "InternalError", 0))}

\* cart_item.delete() in remove_cart_item.
ItemDelete(db, rq) ==
    {Out([db EXCEPT !.items = {i \in @ : i.id # rq.cart_item.id}],
         [rq EXCEPT !.pc = "totals"])}

\* Variant: clear_cart answering without deleting anything.
ClearItemsNothing(db, rq) == {Out(db, SuccessResponse(rq, NoBody))}

\* clear_cart: cart.clear() and the literal zero totals of the response.
ClearItems(db, rq) ==
    {Out([db EXCEPT !.items = @ \ CartItems(@, rq.cart)], SuccessResponse(rq, NoBody))}

\* The cart_totals (and item) part of the responses of get_cart,
\* add_to_cart, update_cart_item and remove_cart_item.
ReadTotals(db, rq) ==
    LET t == Totals(db.items, rq.cart)
        line == IF rq.op \in {"add", "update"} THEN rq.cart_item ELSE NoItem
    IN  {Out(db, SuccessResponse(rq,
                [quantity |-> line.quantity, unit_price |-> line.unit_price,
                 item_count |-> t.item_count, subtotal |-> t.subtotal,
                 tax_amount |-> t.tax_amount, total |-> t.total]))}

(***************************************************************************)
(* Running a handler.                                                      *)
(***************************************************************************)
\* The next statement of a request.
Step(db, rq) ==
    CASE rq.pc = "get_product" -> AddGetProduct(db, rq)
      [] rq.pc = "resolve" -> ResolveCart(db, rq)
      [] rq.pc = "cart_create" -> CartCreate(db, rq)
      [] rq.pc = "item_get" -> ItemGet(db, rq)
      [] rq.pc = "item_create" -> ItemCreate(db, rq)
      [] rq.pc = "item_save" -> ItemSave(db, rq)
      [] rq.pc = "item_delete" -> ItemDelete(db, rq)
      [] rq.pc = "clear" -> ClearItems(db, rq)
      [] rq.pc = "totals" -> ReadTotals(db, rq)
      [] OTHER -> {}

\* A handler run from its current statement to its response.
RECURSIVE Run(_, _)
Run(db, rq) ==
    IF rq.pc = "done" THEN {Out(db, rq)}
    ELSE UNION {Run(o.db, o.rq) : o \in Step(db, rq)}

\* The store and slot r take the values of an outcome.
Commit(r, o) ==
    /\ products' = o.db.products
    /\ carts' = o.db.carts
    /\ items' = o.db.items
    /\ sessions' = o.db.sessions
    /\ nextCartId' = o.db.nextCartId
    /\ nextItemId' = o.db.nextItemId
    /\ req' = [req EXCEPT ![r] = o.rq]
    /\ UNCHANGED <<authVars, addrVars>>

\* Requests served one at a time: the whole handler is one action.
Serve(rq) ==
    /\ req[1].pc = "idle"
    /\ nreq < MaxRequests
    /\ nreq' = nreq + 1
    /\ \E o \in Run(DB, rq) : Commit(1, o)

get_cart(ctx) == Serve(BeginGet(DB, ctx))

add_to_cart(ctx, pid, raw) == Serve(BeginAdd(DB, ctx, pid, raw))

update_cart_item(ctx, iid, raw) == Serve(BeginUpdate(DB, ctx, iid, raw))

remove_cart_item(ctx, iid) == Serve(BeginRemove(DB, ctx, iid))

clear_cart(ctx) == Serve(BeginClear(DB, ctx))

InFlight == {s \in Slots : req[s].pc \notin {"idle", "done"}}

\* Interleaved requests: a request arrives in slot r ...
Arrive(r, rq) ==
    /\ req[r].pc = "idle"
    /\ nreq < MaxConcRequests
    /\ nreq' = nreq + 1
    /\ Commit(r, Out(DB, [rq EXCEPT !.overlap = InFlight]))

\* ... and executes its next statement.
Exec(r, pc) ==
    /\ req[r].pc = pc
    /\ \E o \in Step(DB, req[r]) : Commit(r, o)
    /\ UNCHANGED nreq

\* The response has been sent; the request and its objects are gone.
Finish(r) ==
    /\ req[r].pc = "done"
    /\ req' = [s \in Slots |->
                  IF s = r THEN IdleReq ELSE [req[s] EXCEPT !.overlap = @ \ {r}]]
    /\ UNCHANGED <<products, carts, items, sessions, nextCartId, nextItemId, nreq>>
    /\ UNCHANGED <<authVars, addrVars>>

(***************************************************************************)
(* The catalogue is edited by the shop's staff (admin site), between       *)
(* requests.                                                               *)
(***************************************************************************)
Idle == \A r \in Slots : req[r].pc = "idle"

\* The price of a product is changed.
AdminSetPrice(p, v) ==
    /\ Idle
    /\ products[p].price # v
    /\ products' = [products EXCEPT ![p].price = v]
    /\ UNCHANGED <<carts, items, sessions, nextCartId, nextItemId, req, nreq>>
    /\ UNCHANGED <<authVars, addrVars>>

\* The stock of a product is changed (restocked, sold elsewhere).
AdminSetStock(p, n) ==
    /\ Idle
    /\ products[p].stock_quantity # n
    /\ products' = [products EXCEPT ![p].stock_quantity = n]
    /\ UNCHANGED <<carts, items, sessions, nextCartId, nextItemId, req, nreq>>
    /\ UNCHANGED <<authVars, addrVars>>

(***************************************************************************)
(* Specifications.                                                         *)
(***************************************************************************)
Next ==
    \/ \E ctx \in Contexts : get_cart(ctx)
    \/ \E ctx \in Contexts, pid \in ProductIdInputs, raw \in QuantityInputs :
          add_to_cart(ctx, pid, raw)
    \/ \E ctx \in Contexts, iid \in ItemIdInputs, raw \in QuantityInputs :
          update_cart_item(ctx, iid, raw)
    \/ \E ctx \in Contexts, iid \in ItemIdInputs : remove_cart_item(ctx, iid)
    \/ \E ctx \in Contexts : clear_cart(ctx)
    \/ Finish(1)
    \/ \E p \in RepricedProducts, v \in PriceSet : AdminSetPrice(p, v)
    \/ \E p \in RestockedProducts, n \in StockSet : AdminSetStock(p, n)

Spec == Init /\ [][Next]_vars

ConcNext ==
    \E r \in Slots :
        \/ \E ctx \in ConcContexts : Arrive(r, BeginGet(DB, ctx))
        \/ \E ctx \in ConcContexts, pid \in ConcProductIdInputs, raw \in ConcQuantityInputs :
              Arrive(r, BeginAdd(DB, ctx, pid, raw))
        \/ \E ctx \in ConcContexts, iid \in ConcItemIdInputs, raw \in ConcQuantityInputs :
              Arrive(r, BeginUpdate(DB, ctx, iid, raw))
        \/ \E ctx \in ConcContexts, iid \in ConcItemIdInputs :
              Arrive(r, BeginRemove(DB, ctx, iid))
        \/ \E ctx \in ConcContexts : Arrive(r, BeginClear(DB, ctx))
        \/ Exec(r, "get_product")
        \/ Exec(r, "resolve")
        \/ Exec(r, "cart_create")
        \/ Exec(r, "item_get")
        \/ Exec(r, "item_create")
        \/ Exec(r, "item_save")
        \/ Exec(r, "item_delete")
        \/ Exec(r, "clear")
        \/ Exec(r, "totals")
        \/ Finish(r)

ConcSpec == Init /\ [][ConcNext]_vars

(***************************************************************************)
(* CartService (orders/services/cart.py), called with a cart, a product id *)
(* and an int quantity. Its result tuple (success, error_message, item) is *)
(* kept in the request record: status 200 stands for success = True, 400   *)
(* for success = False.                                                    *)
(***************************************************************************)
ServiceQuantityInputs == {-1, 0, 1, 99, 100}

\* ProductRepository.get_by_id: Product.objects.get(id=product_id).
ProductById(ps, pid) ==
    IF pid \in DOMAIN ps
    THEN [id |-> pid, price |-> ps[pid].price,
          stock_quantity |-> ps[pid].stock_quantity, is_active |-> ps[pid].is_active]
    ELSE NoProduct

\* CartItem.quantity is a PositiveIntegerField: the column's CHECK (quantity >= 0).
QuantityColumnCheck(q) == q >= 0

ServiceCall(db, op, c, pid, q, iid) ==
    [NewRequest(db, op, Ctx(None, None, None), pid, RawInt(q), iid) EXCEPT
        !.cart = c, !.quantity = q]

ServiceFailure(rq, error, avail) ==
    [rq EXCEPT !.pc = "done", !.status = 400, !.error = error, !.avail = avail]

ServiceSuccess(rq, line) ==
    [rq EXCEPT !.pc = "done", !.status = 200, !.cart_item = line]

\* CartService.validate_stock_availability.
ValidateStockAvailability(p, q) ==
    IF ~InStock(p) THEN "OutOfStock"
    ELSE IF p.stock_quantity < q THEN "InsufficientStock"
    ELSE "none"

\* CartService.add_item_to_cart, with CartRepository.update_item and
\* CartRepository.add_item inside transaction.atomic(); an exception in the
\* block rolls it back and is returned as a failure.
AddItemToCart(db, rq) ==
    LET p == ProductById(db.products, rq.product_id)
        stock_error == ValidateStockAvailability(p, rq.quantity)
        found == ItemByProduct(db.items, rq.cart, rq.product_id)
    IN  IF p = NoProduct THEN Out(db, ServiceFailure(rq, "ProductNotFound", 0))
        ELSE IF stock_error # "none"
        THEN Out(db, ServiceFailure(rq, stock_error, p.stock_quantity))
        ELSE IF found # {}
        THEN LET line == CHOOSE i \in found : TRUE
                 new_quantity == line.quantity + rq.quantity
                 row == [line EXCEPT !.quantity = new_quantity,
                                     !.unit_price = SaveUnitPrice(line.unit_price, p.price)]
             IN  IF new_quantity > MaxQuantity
                 THEN Out(db, ServiceFailure(rq, "QuantityLimitExceeded", 0))
                 ELSE IF p.stock_quantity < new_quantity
                 THEN Out(db, ServiceFailure(rq, "InsufficientStock", p.stock_quantity))
                 ELSE IF ~QuantityColumnCheck(new_quantity)
                 THEN Out(db, ServiceFailure(rq, "ServiceError", 0))
                 ELSE Out([db EXCEPT !.items = (@ \ {line}) \cup {row}],
                          ServiceSuccess(rq, row))
        ELSE LET row == [id |-> db.nextItemId, cart |-> rq.cart, product |-> p.id,
                         quantity |-> rq.quantity,
                         unit_price |-> SaveUnitPrice(0, p.price)]
             IN  IF ~QuantityColumnCheck(rq.quantity)
                 THEN Out(db, ServiceFailure(rq, "ServiceError", 0))
                 ELSE Out([db EXCEPT !.items = @ \cup {row}, !.nextItemId = @ + 1],
                          ServiceSuccess(rq, row))

\* CartService.update_cart_item_quantity, with CartService.get_cart_item and
\* CartRepository.update_item inside transaction.atomic(); an exception in
\* the block rolls it back and is returned as a failure.
UpdateCartItemQuantity(db, rq) ==
    LET found == ItemById(db.items, rq.cart, rq.item_id) IN
    IF found = {} THEN Out(db, ServiceFailure(rq, "ItemNotFound", 0))
    ELSE LET line == CHOOSE i \in found : TRUE
             p == ProductById(db.products, line.product)
             stock_error == ValidateStockAvailability(p, rq.quantity)
             row == [line EXCEPT
                       !.quantity = NewQuantity([rq EXCEPT !.cart_item = line]),
                       !.unit_price = SaveUnitPrice(line.unit_price, p.price)]
         IN  IF stock_error # "none"
             THEN Out(db, ServiceFailure([rq EXCEPT !.cart_item = line], stock_error,
                                         p.stock_quantity))
             ELSE IF ~QuantityColumnCheck(row.quantity)
             THEN Out(db, ServiceFailure([rq EXCEPT !.cart_item = line],
                                         "ServiceError", 0))
             ELSE Out([db EXCEPT !.items = (@ \ {line}) \cup {row}],
                      ServiceSuccess(rq, row))

update_cart_item_quantity(c, iid, q) ==
    /\ req[1].pc = "idle"
    /\ nreq < MaxRequests
    /\ nreq' = nreq + 1
    /\ Commit(1, UpdateCartItemQuantity(DB, ServiceCall(DB, "service_update", c, 0, q, iid)))

add_item_to_cart(c, pid, q) ==
    /\ req[1].pc = "idle"
    /\ nreq < MaxRequests
    /\ nreq' = nreq + 1
    /\ Commit(1, AddItemToCart(DB, ServiceCall(DB, "service_add", c, pid, q, 0)))

\* The views of Spec and the service, called one at a time.
ServiceNext ==
    \/ Next
    \/ \E c \in carts, pid \in ProductIdInputs, q \in ServiceQuantityInputs :
          add_item_to_cart(c.id, pid, q)
    \/ \E c \in carts, iid \in ItemIdInputs, q \in ServiceQuantityInputs :
          update_cart_item_quantity(c.id, iid, q)

ServiceSpec == Init /\ [][ServiceNext]_vars

(***************************************************************************)
(* Accounts and tokens (users/services/authentication.py,                  *)
(* users/services/token.py, users/models.py). An account is a User row; a  *)
(* token is a row of EmailVerificationToken ("verify"), PasswordResetToken *)
(* ("reset") or EmailChangeToken ("change"). The token string is the row's *)
(* id here. "expired" stands for timezone.now() > expires_at; "uses"       *)
(* counts the confirmations the token was accepted for.                    *)
(***************************************************************************)
Emails == {"a@x", "b@x", "c@x"}

\* The addresses accounts are registered with; the third is free to change to.
RegistrationEmails == {"a@x", "b@x"}
Passwords == {"p1", "p2"}

\* User.objects.get(email=email): email is unique.
UserByEmail(us, email) == {u \in us : u.email = email}

UserById(us, uid) == {u \in us : u.id = uid}

\* <Token>.objects.get(token=token), each kind in its own table.
TokenLookup(toks, kind, tok) == {t \in toks : t.kind = kind /\ t.id = tok}

\* Variant: is_valid without the expiry test.
TokenIsValidIgnoresExpiry(t) == ~t.is_used

\* is_valid: not self.is_used and not self.is_expired.
TokenIsValid(t) == ~t.is_used /\ ~t.expired

\* <Token>.objects.create(user=user): save() fills token and expires_at.
NewToken(kind, uid, new_email, next) ==
    [id |-> next, kind |-> kind, user |-> uid, is_used |-> FALSE, expired |-> FALSE,
     new_email |-> new_email, uses |-> 0]

\* TokenService.mark_*_used.
MarkUsed(toks, t) ==
    (toks \ {t}) \cup {[t EXCEPT !.is_used = TRUE, !.uses = @ + 1]}

\* TokenService.get_or_create_email_verification_token: get_or_create on
\* (user, is_used=False); a valid token found is reused, an expired one is
\* left and a new one created. Several unused rows make get() raise.
GetOrCreateVerificationToken(toks, uid, next) ==
    LET unused == {t \in toks : t.kind = "verify" /\ t.user = uid /\ ~t.is_used}
        fresh == NewToken("verify", uid, None, next)
        created == [ok |-> TRUE, tokens |-> toks \cup {fresh}, token |-> fresh.id,
                    next |-> next + 1]
    IN  IF Cardinality(unused) > 1
        THEN [ok |-> FALSE, tokens |-> toks, token |-> 0, next |-> next]
        ELSE IF unused = {} THEN created
        ELSE LET t == CHOOSE x \in unused : TRUE
             IN  IF TokenIsValid(t)
                 THEN [ok |-> TRUE, tokens |-> toks, token |-> t.id, next |-> next]
                 ELSE created

\* Variant: the tokens issued before are kept.
CreatePasswordResetTokenKeepsOld(toks, uid, next) ==
    toks \cup {NewToken("reset", uid, None, next)}

\* TokenService.create_password_reset_token: the user's reset tokens are
\* deleted, then one is created.
CreatePasswordResetToken(toks, uid, next) ==
    {t \in toks : ~(t.kind = "reset" /\ t.user = uid)}
       \cup {NewToken("reset", uid, None, next)}

\* Variant: the tokens issued before are kept.
CreateEmailChangeTokenKeepsOld(toks, uid, new_email, next) ==
    toks \cup {NewToken("change", uid, new_email, next)}

\* TokenService.create_email_change_token: the user's email change tokens
\* are deleted, then one is created for new_email.
CreateEmailChangeToken(toks, uid, new_email, next) ==
    {t \in toks : ~(t.kind = "change" /\ t.user = uid)}
       \cup {NewToken("change", uid, new_email, next)}

\* The result of an account operation.
Result(op, ok, tok, uid) == [op |-> op, ok |-> ok, token |-> tok, user |-> uid]

\* An account operation that changes nothing.
Rejected(op, tok, uid) ==
    /\ last' = Result(op, FALSE, tok, uid)
    /\ UNCHANGED <<accounts, tokens, nextTokenId>>

\* One more account operation runs; the carts are not involved.
AccountOperation ==
    /\ nreq < MaxAuthOps
    /\ nreq' = nreq + 1
    /\ UNCHANGED <<cartVars, addrVars>>

\* AuthenticationService.register_user: create_user(is_active=False), then
\* the verification token. A taken email makes create_user raise.
register_user(email, password) ==
    /\ AccountOperation
    /\ IF UserByEmail(accounts, email) # {}
       THEN Rejected("register", 0, 0)
       ELSE LET uid == Cardinality(accounts) + 1
                got == GetOrCreateVerificationToken(tokens, uid, nextTokenId)
            IN  /\ accounts' = accounts \cup
                      {[id |-> uid, email |-> email, password |-> password,
                        is_active |-> FALSE]}
                /\ tokens' = got.tokens
                /\ nextTokenId' = got.next
                /\ last' = Result("register", got.ok, got.token, uid)

\* Variant: the login does not look at is_active.
login_user_any_account(email, password) ==
    /\ AccountOperation
    /\ LET found == {u \in UserByEmail(accounts, email) : u.password = password} IN
       IF found = {} THEN Rejected("login", 0, 0)
       ELSE /\ last' = Result("login", TRUE, 0, (CHOOSE x \in found : TRUE).id)
            /\ UNCHANGED <<accounts, tokens, nextTokenId>>

\* The view login_user with UserLoginSerializer.validate: the user of that
\* email must exist and be active, then AuthenticationService.
\* authenticate_user checks the password (django's authenticate refuses an
\* inactive user too). last_login is not part of the account here.
login_user(email, password) ==
    /\ AccountOperation
    /\ LET found == {u \in UserByEmail(accounts, email) : u.is_active} IN
       IF found = {} \/ \E u \in found : u.password # password
       THEN Rejected("login", 0, 0)
       ELSE /\ last' = Result("login", TRUE, 0, (CHOOSE x \in found : TRUE).id)
            /\ UNCHANGED <<accounts, tokens, nextTokenId>>

\* The view verify_email, routed at auth/verify-email/: the package's
\* EmailVerificationSerializer has no validate_token, so validated_data
\* ["token"] is the string sent and verification_token.user raises before
\* anything is written.
verify_email_view(tok) ==
    /\ AccountOperation
    /\ Rejected("post_verify", tok, 0)

\* AuthenticationService.verify_user_email.
verify_user_email(tok) ==
    /\ AccountOperation
    /\ LET found == TokenLookup(tokens, "verify", tok) IN
       IF found = {} \/ \E t \in found : ~TokenIsValid(t)
       THEN Rejected("verify", tok, 0)
       ELSE LET t == CHOOSE x \in found : TRUE IN
            /\ accounts' = {IF u.id = t.user THEN [u EXCEPT !.is_active = TRUE] ELSE u :
                               u \in accounts}
            /\ tokens' = MarkUsed(tokens, t)
            /\ last' = Result("verify", TRUE, tok, t.user)
            /\ UNCHANGED nextTokenId

\* AuthenticationService.resend_verification_email (the routed view
\* resend_verification_email does the same): a new token for an inactive
\* user, whatever tokens the user has; nothing for an active or unknown one.
resend_verification_email(email) ==
    /\ AccountOperation
    /\ LET found == {u \in UserByEmail(accounts, email) : ~u.is_active} IN
       IF found = {} THEN Rejected("resend", 0, 0)
       ELSE LET u == CHOOSE x \in found : TRUE
            IN  /\ tokens' = tokens \cup {NewToken("verify", u.id, None, nextTokenId)}
                /\ nextTokenId' = nextTokenId + 1
                /\ last' = Result("resend", TRUE, nextTokenId, u.id)
                /\ UNCHANGED accounts

\* TokenService.get_or_create_email_verification_token(user), called for an
\* existing user; ok is FALSE when it raises.
get_or_create_email_verification_token(uid) ==
    /\ AccountOperation
    /\ LET got == GetOrCreateVerificationToken(tokens, uid, nextTokenId) IN
       /\ tokens' = got.tokens
       /\ nextTokenId' = got.next
       /\ last' = Result("get_or_create_token", got.ok, got.token, uid)
       /\ UNCHANGED accounts

\* AuthenticationService.request_password_reset, with
\* TokenService.create_password_reset_token.
request_password_reset(email) ==
    /\ AccountOperation
    /\ LET found == {u \in UserByEmail(accounts, email) : u.is_active} IN
       IF found = {} THEN Rejected("request_reset", 0, 0)
       ELSE LET u == CHOOSE x \in found : TRUE
            IN  /\ tokens' = CreatePasswordResetToken(tokens, u.id, nextTokenId)
                /\ nextTokenId' = nextTokenId + 1
                /\ last' = Result("request_reset", TRUE, nextTokenId, u.id)
                /\ UNCHANGED accounts

\* The view request_password_reset (users/views/password_reset.py), routed
\* at auth/password-reset/: PasswordResetToken.objects.create(user=user) for
\* an active user, nothing else. The response is the same either way.
request_password_reset_view(email) ==
    /\ AccountOperation
    /\ LET found == {u \in UserByEmail(accounts, email) : u.is_active} IN
       IF found = {} THEN Rejected("post_reset", 0, 0)
       ELSE LET u == CHOOSE x \in found : TRUE
            IN  /\ tokens' = tokens \cup {NewToken("reset", u.id, None, nextTokenId)}
                /\ nextTokenId' = nextTokenId + 1
                /\ last' = Result("post_reset", TRUE, nextTokenId, u.id)
                /\ UNCHANGED accounts

\* AuthenticationService.confirm_password_reset.
confirm_password_reset(tok, new_password) ==
    /\ AccountOperation
    /\ LET found == TokenLookup(tokens, "reset", tok) IN
       IF found = {} \/ \E t \in found : ~TokenIsValid(t)
       THEN Rejected("confirm_reset", tok, 0)
       ELSE LET t == CHOOSE x \in found : TRUE IN
            /\ accounts' = {IF u.id = t.user THEN [u EXCEPT !.password = new_password]
                            ELSE u : u \in accounts}
            /\ tokens' = MarkUsed(tokens, t)
            /\ last' = Result("confirm_reset", TRUE, tok, t.user)
            /\ UNCHANGED nextTokenId

\* AuthenticationService.request_email_change, called for the authenticated
\* user uid, with TokenService.create_email_change_token.
request_email_change(uid, current_password, new_email) ==
    /\ AccountOperation
    /\ \E u \in UserById(accounts, uid) :
          /\ u.is_active
          /\ IF \/ u.password # current_password
                \/ u.email = new_email
                \/ UserByEmail(accounts, new_email) # {}
             THEN Rejected("request_change", 0, uid)
             ELSE /\ tokens' = CreateEmailChangeToken(tokens, uid, new_email, nextTokenId)
                  /\ nextTokenId' = nextTokenId + 1
                  /\ last' = Result("request_change", TRUE, nextTokenId, uid)
                  /\ UNCHANGED accounts

\* AuthenticationService.confirm_email_change. user.save() raises when the
\* new email was taken meanwhile (email is unique) and the block rolls back.
confirm_email_change(tok) ==
    /\ AccountOperation
    /\ LET found == TokenLookup(tokens, "change", tok) IN
       IF found = {} \/ \E t \in found : ~TokenIsValid(t)
       THEN Rejected("confirm_change", tok, 0)
       ELSE LET t == CHOOSE x \in found : TRUE IN
            IF \E u \in UserByEmail(accounts, t.new_email) : u.id # t.user
            THEN Rejected("confirm_change", tok, t.user)
            ELSE /\ accounts' = {IF u.id = t.user THEN [u EXCEPT !.email = t.new_email]
                                 ELSE u : u \in accounts}
                 /\ tokens' = MarkUsed(tokens, t)
                 /\ last' = Result("confirm_change", TRUE, tok, t.user)
                 /\ UNCHANGED nextTokenId

\* Time passes beyond the expires_at of token t, and of the tokens issued
\* before it.
Expire(t) ==
    /\ ~t.expired
    /\ tokens' = {IF x.id <= t.id THEN [x EXCEPT !.expired = TRUE] ELSE x : x \in tokens}
    /\ UNCHANGED <<accounts, nextTokenId, last, nreq>>
    /\ UNCHANGED <<cartVars, addrVars>>

\* The token strings a caller may present: those issued so far, and one
\* that never was.
TokenInputs == 0 .. (nextTokenId - 1)

AuthNext ==
    \/ \E e \in RegistrationEmails, pw \in Passwords : register_user(e, pw)
    \/ \E e \in Emails, pw \in Passwords : login_user(e, pw)
    \/ \E tok \in TokenInputs : verify_email_view(tok)
    \/ \E tok \in TokenInputs : verify_user_email(tok)
    \/ \E e \in Emails : resend_verification_email(e)
    \/ \E u \in accounts : get_or_create_email_verification_token(u.id)
    \/ \E e \in Emails : request_password_reset(e)
    \/ \E e \in Emails : request_password_reset_view(e)
    \/ \E tok \in TokenInputs, pw \in Passwords : confirm_password_reset(tok, pw)
    \/ \E u \in accounts, pw \in Passwords, e \in Emails :
          request_email_change(u.id, pw, e)
    \/ \E tok \in TokenInputs : confirm_email_change(tok)
    \/ \E t \in tokens : Expire(t)

AuthSpec == Init /\ [][AuthNext]_vars

(***************************************************************************)
(* Addresses (users/models.py, users/repositories/address.py,              *)
(* users/services/address.py, users/views/address.py). An address is a row *)
(* of Address; of its fields only user, label and is_primary matter here.  *)
(* A label is a number.                                                    *)
(***************************************************************************)
AddressOwners == {"u1", "u2"}

\* The operations (counted from 0) at which the second user sends a request.
OtherOwnerTurns == {0}

Labels == 1 .. (MAX_ADDRESSES_PER_USER + 1)

\* A field of the request data: not sent, or sent with a value.
Omitted == <<>>

Sent(v) == <<v>>

\* Address.objects.filter(user=user).
UserAddresses(as, u) == {a \in as : a.user = u}

\* AddressRepository.get_user_address: Address.objects.get(id=..., user=user).
UserAddress(as, id, u) == {a \in as : a.id = id /\ a.user = u}

\* Address.objects.filter(user=user, is_primary=True).
PrimaryAddresses(as, u) == {a \in UserAddresses(as, u) : a.is_primary}

\* AddressService.validate_label_uniqueness, excluding the address exclude
\* (0: none).
ValidateLabelUniqueness(as, u, label, exclude) ==
    ~\E a \in UserAddresses(as, u) : a.label = label /\ a.id # exclude

\* ....filter(user=user, is_primary=True).update(is_primary=False)
UnsetPrimary(as, u) ==
    {IF a.user = u THEN [a EXCEPT !.is_primary = FALSE] ELSE a : a \in as}

\* Variant: save() leaves the other primary addresses alone.
AddressSaveKeepsOthers(as, a, next) ==
    LET first == a.id = 0 /\ UserAddresses(as, a.user) = {}
        row == [a EXCEPT !.id = IF a.id = 0 THEN next ELSE a.id,
                         !.is_primary = a.is_primary \/ first]
    IN  {x \in as : x.id # row.id} \cup {row}

\* Address.save: a primary address unsets the user's primary addresses; a
\* new address (no pk, id 0 here) of a user without addresses is made
\* primary; then the row is inserted or updated.
AddressSave(as, a, next) ==
    LET cleared == IF a.is_primary THEN UnsetPrimary(as, a.user) ELSE as
        first == a.id = 0 /\ UserAddresses(cleared, a.user) = {}
        row == [a EXCEPT !.id = IF a.id = 0 THEN next ELSE a.id,
                         !.is_primary = a.is_primary \/ first]
    IN  {x \in cleared : x.id # row.id} \cup {row}

\* Variant: the limit is tested with > in place of >=.
AddressLimitReachedOffByOne(as, u) ==
    Cardinality(UserAddresses(as, u)) > MAX_ADDRESSES_PER_USER

\* AddressService.create_address: count_user_addresses(user) >=
\* UserLimits.MAX_ADDRESSES_PER_USER.
AddressLimitReached(as, u) ==
    Cardinality(UserAddresses(as, u)) >= MAX_ADDRESSES_PER_USER

\* One more address operation of user u runs; nothing else is involved.
\* The requests of the second user come first.
AddressOperation(u) ==
    /\ nreq < MaxAddressOps
    /\ u # "u1" => nreq \in OtherOwnerTurns
    /\ nreq' = nreq + 1
    /\ UNCHANGED <<cartVars, accounts, tokens, nextTokenId>>

\* An address operation answered with an error: nothing is written.
AddressError(op) ==
    /\ last' = Result(op, FALSE, 0, 0)
    /\ UNCHANGED addrVars

\* AddressViewSet.create with AddressService.create_address. is_primary is
\* FALSE when the request omits it (the model's default).
create_address(u, label, is_primary) ==
    /\ AddressOperation(u)
    /\ IF \/ ~ValidateLabelUniqueness(addresses, u, label, 0)
          \/ AddressLimitReached(addresses, u)
       THEN AddressError("create_address")
       ELSE /\ addresses' = AddressSave(addresses,
                               [id |-> 0, user |-> u, label |-> label,
                                is_primary |-> is_primary], nextAddressId)
            /\ nextAddressId' = nextAddressId + 1
            /\ last' = Result("create_address", TRUE, 0, 0)

\* AddressViewSet.update (PUT and PATCH) with AddressService.update_address
\* and AddressRepository.update_address: the fields sent are set, then
\* save().
update_address(u, id, label, is_primary) ==
    /\ AddressOperation(u)
    /\ LET found == UserAddress(addresses, id, u) IN
       IF found = {} THEN AddressError("update_address")
       ELSE LET a == CHOOSE x \in found : TRUE IN
            IF label # Omitted /\ ~ValidateLabelUniqueness(addresses, u, label[1], a.id)
            THEN AddressError("update_address")
            ELSE /\ addresses' = AddressSave(addresses,
                        [a EXCEPT !.label = IF label = Omitted THEN @ ELSE label[1],
                                  !.is_primary = IF is_primary = Omitted THEN @
                                                 ELSE is_primary[1]],
                        nextAddressId)
                 /\ last' = Result("update_address", TRUE, 0, 0)
                 /\ UNCHANGED nextAddressId

\* AddressViewSet.set_primary with AddressService.set_primary_address and
\* AddressRepository.set_primary_address.
set_primary(u, id) ==
    /\ AddressOperation(u)
    /\ LET found == UserAddress(addresses, id, u) IN
       IF found = {} THEN AddressError("set_primary")
       ELSE LET a == CHOOSE x \in found : TRUE IN
            /\ addresses' = AddressSave(UnsetPrimary(addresses, u),
                                        [a EXCEPT !.is_primary = TRUE], nextAddressId)
            /\ last' = Result("set_primary", TRUE, 0, 0)
            /\ UNCHANGED nextAddressId

\* AddressViewSet.destroy with AddressService.delete_address.
delete_address(u, id) ==
    /\ AddressOperation(u)
    /\ LET found == UserAddress(addresses, id, u) IN
       IF found = {} \/ Cardinality(UserAddresses(addresses, u)) <= 1
       THEN AddressError("delete_address")
       ELSE /\ addresses' = addresses \ found
            /\ last' = Result("delete_address", TRUE, 0, 0)
            /\ UNCHANGED nextAddressId

\* The smallest label of a set of labels (the empty set for none).
Smallest(ls) == {l \in ls : \A m \in ls : l <= m}

\* The labels the user has.
UsedLabels(u) == {a.label : a \in UserAddresses(addresses, u)}

\* The labels sent with a create: the smallest one the user does not have
\* yet, and the smallest one the user has.
CreateLabels(u) == Smallest(Labels \ UsedLabels(u)) \cup Smallest(UsedLabels(u))

\* The labels sent with an update: none, or the smallest one the user has
\* (the label of the address updated, or of another one).
UpdateLabels(u) == {Omitted} \cup {Sent(l) : l \in Smallest(UsedLabels(u))}

\* is_primary as sent with an update.
UpdatePrimaryInputs == {Omitted, Sent(TRUE), Sent(FALSE)}

\* The address ids sent: those of existing addresses, and one that is not.
AddressIdInputs == {a.id : a \in addresses} \cup {0}

AddressNext ==
    \/ \E u \in AddressOwners : \E l \in CreateLabels(u), p \in BOOLEAN :
          create_address(u, l, p)
    \/ \E u \in AddressOwners, id \in AddressIdInputs :
          \E l \in UpdateLabels(u), p \in UpdatePrimaryInputs :
             update_address(u, id, l, p)
    \/ \E u \in AddressOwners, id \in AddressIdInputs : set_primary(u, id)
    \/ \E u \in AddressOwners, id \in AddressIdInputs : delete_address(u, id)

AddressSpec == Init /\ [][AddressNext]_vars

(***************************************************************************)
(* Properties.                                                             *)
(***************************************************************************)
Done(r) == req[r].pc = "done"

\* The quantity value of a request is an integer between 1 and 99.
ValidQuantityValue(raw) ==
    /\ IsIntegral(raw)
    /\ PyInt(raw).v >= MinQuantity
    /\ PyInt(raw).v <= MaxQuantity

\* The requests in slots r1 and r2 were in flight at the same time.
Concurrent(r1, r2) == r1 \in req[r2].overlap \/ r2 \in req[r1].overlap

\* C1: under any interleaving of cart-resolving requests, at most one Cart
\* exists per owning user and at most one ownerless Cart per guest session
\* token.
UniqueCartPerIdentity ==
    \A c1 \in carts, c2 \in carts :
        /\ (c1.user # None /\ c1.user = c2.user) => c1 = c2
        /\ (c1.user = None /\ c2.user = None /\ c1.session_key = c2.session_key)
              => c1 = c2

\* Two concurrent first-time requests of one identity: one created the cart,
\* the other lost the race and was given the same cart.
C1_Witness ==
    \E r1 \in Slots, r2 \in Slots :
        /\ Concurrent(r1, r2)
        /\ req[r1].cart_how = "created"
        /\ req[r2].cart_how = "raced"
        /\ req[r1].cart = req[r2].cart
        /\ req[r1].cart # 0

\* C2: every Cart has exactly one of {owning user, guest session key} set.
CartHasExactlyOneIdentity ==
    \A c \in carts : (c.user # None) # (c.session_key # None)

\* A guest's cart exists, and an authenticated caller whose request also
\* carried a guest token has been given a new cart that holds the user only.
C2_Witness ==
    /\ \E c \in carts : c.user = None /\ c.session_key # None
    /\ \E r \in Slots : /\ Done(r)
                        /\ req[r].user # None
                        /\ req[r].header # None
                        /\ req[r].cart_how = "created"
                        /\ \E c \in carts : /\ c.id = req[r].cart
                                            /\ c.user = req[r].user
                                            /\ c.session_key = None

\* At most one CartItem per (cart, product) pair.
AtMostOneItemPerPair ==
    \A i \in items, j \in items :
        (i.cart = j.cart /\ i.product = j.product) => i = j

\* C3: at most one CartItem per (cart, product); with requests served one
\* after the other, a successful add of q to a cart holding a line of q0 for
\* the product leaves exactly one line, of quantity q0 + q, and an add into
\* an existing line with q0 + q <= 99 and <= stock succeeds.
MergeLaw ==
    /\ AtMostOneItemPerPair
    /\ \A r \in Slots :
        LET rq == req[r]
            before == ItemByProduct(rq.items0, rq.cart, rq.product_id)
            now == ItemByProduct(items, rq.cart, rq.product_id)
            q0 == SumQuantity(before)
        IN  (Done(r) /\ rq.op = "add" /\ rq.cart # 0) =>
               /\ rq.status = 200 =>
                     /\ Cardinality(now) = 1
                     /\ \A i \in now : i.quantity = q0 + rq.quantity
               /\ ( /\ before # {}
                    /\ rq.raw.kind = "int"
                    /\ rq.raw.n >= MinQuantity
                    /\ q0 + rq.raw.n <= MaxQuantity
                    /\ q0 + rq.raw.n <= products[rq.product_id].stock_quantity )
                  => rq.status = 200

\* An add merged into an existing line and brought it to 99.
C3_Witness ==
    \E r \in Slots :
        /\ Done(r) /\ req[r].op = "add" /\ req[r].status = 200
        /\ ~req[r].created
        /\ \E i \in items : /\ i.id = req[r].cart_item.id
                            /\ i.quantity = MaxQuantity
                            /\ i.quantity = 98 + req[r].quantity

\* C4: two concurrent successful adds of q1 and q2 to a line that held q0
\* when each of them arrived leave the line at q0 + q1 + q2.
NoLostIncrement ==
    \A r1 \in Slots, r2 \in Slots :
        LET a == req[r1]
            b == req[r2]
            line0 == {i \in a.items0 : i.id = a.cart_item.id}
        IN  ( /\ r1 # r2 /\ Done(r1) /\ Done(r2) /\ Concurrent(r1, r2)
              /\ a.op = "add" /\ b.op = "add"
              /\ a.status = 200 /\ b.status = 200
              /\ ~a.created /\ ~b.created
              /\ a.cart_item.id = b.cart_item.id
              /\ line0 # {}
              /\ line0 = {i \in b.items0 : i.id = b.cart_item.id} )
            => \A i \in items : i.id = a.cart_item.id =>
                  i.quantity = SumQuantity(line0) + a.quantity + b.quantity

\* C5: a line's unit price is the product's price when the line is created
\* and no step changes it afterwards.
PriceFreeze ==
    [][ \A i \in items' :
           IF \E j \in items : j.id = i.id
           THEN \A j \in items : j.id = i.id => i.unit_price = j.unit_price
           ELSE i.unit_price = products[i.product].price ]_vars

\* After the catalogue price changed, an add merged into, or an update set
\* the quantity of, a line that keeps the old price.
C5_Witness ==
    \E r \in Slots :
        /\ Done(r) /\ req[r].status = 200
        /\ \/ req[r].op = "add" /\ ~req[r].created
           \/ req[r].op = "update"
        /\ \E i \in items : /\ i.id = req[r].cart_item.id
                            /\ i.unit_price # products[i.product].price
                            /\ req[r].body.unit_price = i.unit_price

\* C6: every stored CartItem has a quantity between 1 and 99.
QuantityInRange ==
    \A i \in items : i.quantity >= MinQuantity /\ i.quantity <= MaxQuantity

\* A line holds 99 and an add on top of it was refused for the cap.
C6_Witness ==
    \E r \in Slots :
        /\ Done(r) /\ req[r].error = "QuantityLimitExceeded"
        /\ \E i \in items : i.id = req[r].cart_item.id /\ i.quantity = MaxQuantity

\* C7: an add or update whose quantity is not an integer between 1 and 99
\* (0, negative, 100 or more, fractional, non-numeric) is answered 400 and
\* changes no CartItem.
InvalidQuantityRejected ==
    \A r \in Slots :
        (Done(r) /\ req[r].op \in {"add", "update"} /\ ~ValidQuantityValue(req[r].raw))
           => req[r].status = 400 /\ items = req[r].items0

\* C8 as stated: every add whose quantity exceeds the product's stock is
\* refused with a message carrying the stock count.
ExcessAddCarriesStockCount ==
    \A r \in Slots :
        LET rq == req[r] IN
        ( /\ Done(r) /\ rq.op = "add" /\ rq.quantity # 0
          /\ ActiveProduct(products, rq.product_id) # NoProduct
          /\ rq.quantity > products[rq.product_id].stock_quantity )
        => /\ rq.status = 400
           /\ rq.error = "InsufficientStock"
           /\ rq.avail = products[rq.product_id].stock_quantity

\* C8: an add whose quantity exceeds the stock of a product that is in stock is
\* refused with the stock count (a product with no stock is refused as out
\* of stock); an add into an existing line is refused whenever existing +
\* requested exceeds the stock; after a successful add the line's quantity is
\* at most the stock the request read.
StockCeiling ==
    \A r \in Slots :
        LET rq == req[r]
            stock == products[rq.product_id].stock_quantity
            before == ItemByProduct(rq.items0, rq.cart, rq.product_id)
        IN  (Done(r) /\ rq.op = "add" /\ rq.quantity # 0
                /\ ActiveProduct(products, rq.product_id) # NoProduct) =>
               /\ (stock > 0 /\ rq.quantity > stock) =>
                     /\ rq.status = 400
                     /\ rq.error = "InsufficientStock"
                     /\ rq.avail = stock
                     /\ items = rq.items0
               /\ stock = 0 =>
                     /\ rq.status = 400
                     /\ rq.error = "OutOfStock"
                     /\ items = rq.items0
               /\ (rq.cart # 0 /\ SumQuantity(before) + rq.quantity > stock) =>
                     /\ rq.status = 400
                     /\ items = rq.items0
               /\ rq.status = 200 =>
                     \A i \in ItemByProduct(items, rq.cart, rq.product_id) :
                         i.quantity <= rq.product.stock_quantity

\* An add that fits the stock on its own is refused because the line already
\* in the cart plus the request exceeds it, with the count in the message.
C8_Witness ==
    \E r \in Slots :
        LET rq == req[r] IN
        /\ Done(r) /\ rq.op = "add"
        /\ rq.error = "InsufficientStock"
        /\ rq.quantity <= rq.product.stock_quantity
        /\ rq.cart_item.quantity + rq.quantity > rq.product.stock_quantity
        /\ rq.avail = products[rq.product_id].stock_quantity

\* C9: update and remove of an item id that belongs to another cart get the
\* response of an id that does not exist, and change no CartItem.
NotFoundResponse(rq) ==
    /\ rq.status = 404
    /\ rq.error = "ItemNotFound"
    /\ rq.avail = 0
    /\ rq.body = NoBody
    /\ rq.header_out = None

CrossCartIsolation ==
    \A r \in Slots :
        LET rq == req[r]
            foreign == \E i \in rq.items0 : i.id = rq.item_id /\ i.cart # rq.cart
            absent == ~ \E i \in rq.items0 : i.id = rq.item_id
        IN  (Done(r) /\ rq.op \in {"update", "remove"}) =>
               /\ foreign => items = rq.items0 /\ rq.status # 200
               /\ (rq.cart # 0 /\ (foreign \/ absent)) => NotFoundResponse(rq)

\* A caller addressed a line of somebody else's cart and was told not found.
C9_Witness ==
    \E r \in Slots :
        /\ Done(r) /\ req[r].op \in {"update", "remove"}
        /\ req[r].cart # 0
        /\ \E i \in items : i.id = req[r].item_id /\ i.cart # req[r].cart
        /\ req[r].status = 404

\* C10: after clear_cart the cart has no CartItem, its item_count, subtotal,
\* tax and total are 0 (in the store and in the response), the Cart row
\* exists, and the items of every other cart are as before.
ClearEmptiesCart ==
    \A r \in Slots :
        LET rq == req[r] IN
        (Done(r) /\ rq.op = "clear" /\ rq.status = 200) =>
           /\ CartItems(items, rq.cart) = {}
           /\ Totals(items, rq.cart) =
                 [item_count |-> 0, subtotal |-> 0, tax_amount |-> 0, total |-> 0]
           /\ rq.body = NoBody
           /\ \E c \in carts : c.id = rq.cart
           /\ {i \in items : i.cart # rq.cart} = {i \in rq.items0 : i.cart # rq.cart}

\* A cart that held items was cleared.
C10_Witness ==
    \E r \in Slots :
        /\ Done(r) /\ req[r].op = "clear" /\ req[r].status = 200
        /\ CartItems(req[r].items0, req[r].cart) # {}
        /\ CartItems(items, req[r].cart) = {}

\* The carts of an identity: the user's, or the ownerless ones of a token.
OwnedBy(cs, user, key) ==
    IF user # None THEN {c \in cs : c.user = user}
    ELSE {c \in cs : c.user = None /\ c.session_key = key}

\* The guest token of a request: the header's, else the cookie session's.
RequestToken(rq) == IF rq.header # None THEN rq.header ELSE rq.cookie

\* Slot r answers its request in this step.
Answers(r) == req[r].pc = "idle" /\ req'[r].pc = "done"

\* The request reached get_or_create_cart.
Resolving(rq) == rq.cart # 0 \/ rq.op \in {"get", "clear", "remove"}

\* C11: a request of an authenticated user, or of a guest who sends a token
\* in the header, resolves to the one cart of that identity; when that cart
\* exists already no cart is created, no cart is ever removed, and get_cart
\* reports the items the cart holds.
ResolutionStable ==
    [][ \A r \in Slots :
          LET rq == req'[r]
              mine == OwnedBy(carts, rq.user, RequestToken(rq))
          IN  (Answers(r) /\ Resolving(rq) /\ (rq.user # None \/ rq.header # None)) =>
                 /\ carts \subseteq carts'
                 /\ OwnedBy(carts', rq.user, RequestToken(rq)) =
                       {c \in carts' : c.id = rq.cart}
                 /\ Cardinality({c \in carts' : c.id = rq.cart}) = 1
                 /\ mine # {} => carts' = carts /\ \E c \in mine : c.id = rq.cart
                 /\ rq.op = "get" =>
                       /\ rq.status = 200
                       /\ items' = items
                       /\ rq.body.item_count = SumQuantity(CartItems(items, rq.cart)) ]_vars

\* A guest who sends only the header got, on a later request, the cart of
\* the earlier one with the items added then.
C11_Witness ==
    \E r \in Slots :
        /\ Done(r) /\ req[r].op = "get" /\ req[r].status = 200
        /\ req[r].user = None /\ req[r].header # None /\ req[r].cookie = None
        /\ req[r].cart_how = "found"
        /\ req[r].body.item_count > 0
        /\ Cardinality(carts) = 1

\* C12: a guest request that carries a header token resolves to the cart of
\* that token, whatever cookie it carries; the cookie session's key is used
\* when there is no header.
HeaderPrecedence ==
    \A r \in Slots :
        LET rq == req[r] IN
        (Done(r) /\ rq.user = None /\ Resolving(rq)
            /\ (rq.header # None \/ rq.cookie # None)) =>
           /\ rq.session_key = RequestToken(rq)
           /\ \A c \in carts : c.id = rq.cart =>
                 c.user = None /\ c.session_key = RequestToken(rq)
           /\ rq.status = 200 => \E c \in carts : c.id = rq.cart

\* A request with a header token and a cookie of another key got the
\* header's cart while a cart of the cookie's key exists.
C12_Witness ==
    \E r \in Slots :
        /\ Done(r) /\ req[r].user = None
        /\ req[r].header # None /\ req[r].cookie # None
        /\ req[r].header # req[r].cookie
        /\ \E c \in carts : c.id = req[r].cart /\ c.session_key = req[r].header
        /\ \E c \in carts : /\ c.id # req[r].cart
                            /\ c.user = None
                            /\ c.session_key = req[r].cookie

\* C13: an authenticated request resolves to the cart owned by its user
\* whatever header or cookie it carries; it creates no session, leaves the
\* guest carts and their items as they were, and its response has no
\* X-Session-ID header.
AuthenticatedUsesOwnCart ==
    [][ \A r \in Slots :
          LET rq == req'[r]
              guest(cs) == {c \in cs : c.user = None}
              guestItems(cs, its) == {i \in its : \E c \in guest(cs) : c.id = i.cart}
          IN  (Answers(r) /\ rq.user # None) =>
                 /\ rq.header_out = None
                 /\ rq.session_key = None
                 /\ sessions' = sessions
                 /\ guest(carts') = guest(carts)
                 /\ guestItems(carts', items') = guestItems(carts, items)
                 /\ Resolving(rq) =>
                       \E c \in carts' : c.id = rq.cart /\ c.user = rq.user ]_vars

\* While a guest cart of token s holds an item, a user whose request carries
\* the header s added an item to a cart of their own.
C13_Witness ==
    \E r \in Slots :
        /\ Done(r) /\ req[r].op = "add" /\ req[r].status = 200
        /\ req[r].user # None /\ req[r].header # None
        /\ \E c \in carts : /\ c.user = None
                            /\ c.session_key = req[r].header
                            /\ c.id # req[r].cart
                            /\ CartItems(items, c.id) # {}
        /\ CartItems(items, req[r].cart) # {}

\* C14: every response to a guest request that resolved a cart, success or
\* error, carries X-Session-ID set to the resolved token, which is the
\* header's token when the request sent one.
EchoesGuestToken ==
    \A r \in Slots :
        LET rq == req[r] IN
        (Done(r) /\ rq.user = None /\ rq.cart # 0) =>
           /\ rq.header_out # None
           /\ rq.header_out = rq.session_key
           /\ rq.header # None => rq.header_out = rq.header

\* Rounding of an amount in 1/100 of a cent to cents, ties going up.
HalfUpCents(x) == (x + 50) \div 100

\* C15: the tax of every cart is 9% of its subtotal rounded to cents with
\* ties rounded half-up.
TaxRoundsHalfUp ==
    \A c \in carts :
        TaxAmount(items, c.id) = HalfUpCents(Subtotal(items, c.id) * TaxRatePercent)

\* The lines of cart c for product p, their units and their amount.
LinesOf(c, p) == {i \in items : i.cart = c /\ i.product = p}

UnitsOf(c, p) ==
    IF LinesOf(c, p) = {} THEN 0 ELSE (CHOOSE i \in LinesOf(c, p) : TRUE).quantity

AmountOf(c, p) ==
    IF LinesOf(c, p) = {} THEN 0
    ELSE LET i == CHOOSE j \in LinesOf(c, p) : TRUE IN i.quantity * i.unit_price

\* C16: the totals of a cart come from its current items: item_count is the
\* sum of the quantities, subtotal the sum of quantity * unit_price, total is
\* subtotal + tax; the totals in a get, add, update or remove response are
\* those of the cart after the request.
TotalsFromItems ==
    /\ \A c \in carts :
          /\ ItemCount(items, c.id) = UnitsOf(c.id, 1) + UnitsOf(c.id, 2) + UnitsOf(c.id, 3)
          /\ Subtotal(items, c.id) = AmountOf(c.id, 1) + AmountOf(c.id, 2) + AmountOf(c.id, 3)
          /\ Total(items, c.id) = Subtotal(items, c.id) + TaxAmount(items, c.id)
    /\ \A r \in Slots :
          LET rq == req[r] IN
          (Done(r) /\ rq.status = 200 /\ rq.op \in {"get", "add", "update", "remove"}) =>
             /\ rq.body.item_count =
                   UnitsOf(rq.cart, 1) + UnitsOf(rq.cart, 2) + UnitsOf(rq.cart, 3)
             /\ rq.body.subtotal =
                   AmountOf(rq.cart, 1) + AmountOf(rq.cart, 2) + AmountOf(rq.cart, 3)
             /\ rq.body.tax_amount = TaxAmount(items, rq.cart)
             /\ rq.body.total = rq.body.subtotal + rq.body.tax_amount

\* A mutation's response reports more units than the cart has lines, and a
\* subtotal that is not the sum of the unit prices.
C16_Witness ==
    \E r \in Slots :
        /\ Done(r) /\ req[r].status = 200 /\ req[r].op \in {"add", "update"}
        /\ req[r].body.item_count > Cardinality(CartItems(items, req[r].cart))
        /\ req[r].body.subtotal = req[r].body.item_count * req[r].body.unit_price
        /\ req[r].body.tax_amount > 0

\* The request named a product that does not exist or is not active.
NoSuchProduct(rq) ==
    rq.product_id \notin DOMAIN products \/ ~products[rq.product_id].is_active

\* C17: a mutation that ends in an error leaves the CartItems of every cart,
\* their quantities and unit prices, as they were before the request.
FailureChangesNothing ==
    \A r \in Slots :
        LET rq == req[r] IN
        (Done(r) /\ rq.op \in {"add", "update", "remove", "clear", "service_add"}
            /\ rq.status # 200) => items = rq.items0

\* A cart holds a line, and an add to it was refused for the stock, for the
\* cap, or for the product.
C17_Witness ==
    \E r \in Slots :
        /\ Done(r) /\ req[r].op \in {"add", "service_add"}
        /\ req[r].error \in {"InsufficientStock", "QuantityLimitExceeded"}
        /\ req[r].cart_item # NoItem
        /\ items # {}

\* C18: an add (with a valid quantity) of a product id that does not exist,
\* or whose product is inactive, ends in the product-not-found outcome and
\* changes no CartItem, through add_to_cart and through
\* CartService.add_item_to_cart.
MissingProductNotFound ==
    \A r \in Slots :
        LET rq == req[r] IN
        (Done(r) /\ rq.op \in {"add", "service_add"} /\ rq.product_id # 0
            /\ ValidQuantityValue(rq.raw) /\ NoSuchProduct(rq)) =>
           /\ rq.error = "ProductNotFound"
           /\ rq.status # 200
           /\ rq.op = "add" => rq.status = 404
           /\ items = rq.items0

\* C19: a guest request without header token and without session key calls
\* session.create() once and, when that yields no key, session.save() once;
\* when there is still no key the request is answered 500, no Cart and no
\* CartItem is created or changed, and no Cart without user and session key
\* is stored.
SessionFailureIsInternalError ==
    [][ \A r \in Slots :
          LET rq == req'[r] IN
          (Answers(r) /\ rq.user = None /\ rq.header = None /\ rq.cookie = None) =>
             /\ rq.creates <= 1 /\ rq.saves <= 1
             /\ rq.saves = 1 => rq.creates = 1
             /\ Resolving(rq) => rq.creates = 1
             /\ (rq.creates = 1 /\ rq.session_key = None) =>
                   /\ rq.saves = 1
                   /\ rq.status = 500
                   /\ carts' = carts
                   /\ items' = items
             /\ \A c \in carts' : c.user # None \/ c.session_key # None ]_vars

\* While a cart exists, a first-time visitor for whom create() and the forced
\* save yielded no key got a 500.
C19_Witness ==
    \E r \in Slots :
        /\ Done(r) /\ req[r].user = None
        /\ req[r].header = None /\ req[r].cookie = None
        /\ req[r].creates = 1 /\ req[r].saves = 1
        /\ req[r].session_key = None
        /\ req[r].status = 500
        /\ carts # {}

\* The kind of token each confirm operation takes.
ConfirmKind(op) ==
    CASE op = "verify" -> "verify"
      [] op = "confirm_reset" -> "reset"
      [] op = "confirm_change" -> "change"
      [] OTHER -> "none"

\* This step is a confirm operation (verify email, confirm password reset,
\* confirm email change).
Confirms == nreq' = nreq + 1 /\ ConfirmKind(last'.op) # "none"

\* C20: a confirm operation accepts a token only while it is unused and
\* unexpired; accepting it marks it used; a rejected confirm leaves every
\* account (is_active, password, email) and every token as it was; no token
\* is accepted twice.
TokenSingleUse ==
    [][ /\ Confirms =>
           LET mine == TokenLookup(tokens, ConfirmKind(last'.op), last'.token) IN
           /\ last'.ok =>
                 /\ \E t \in mine : ~t.is_used /\ ~t.expired /\ t.uses = 0
                 /\ \A t \in TokenLookup(tokens', ConfirmKind(last'.op), last'.token) :
                       t.is_used /\ t.uses = 1
                 /\ TokenLookup(tokens', ConfirmKind(last'.op), last'.token) # {}
           /\ ~last'.ok =>
                 /\ accounts' = accounts
                 /\ tokens' = tokens
           /\ (\A t \in mine : t.is_used \/ t.expired) => ~last'.ok
        /\ \A t \in tokens' : t.uses <= 1 /\ (t.uses = 1 => t.is_used) ]_vars

\* A password reset or email change token that was accepted once has been
\* presented again and rejected.
C20_Witness ==
    /\ last.op \in {"confirm_reset", "confirm_change"}
    /\ ~last.ok
    /\ \E t \in TokenLookup(tokens, ConfirmKind(last.op), last.token) :
          t.is_used /\ t.uses = 1 /\ ~t.expired

\* The EmailChangeToken rows of user uid.
EmailChangeTokens(toks, uid) == {t \in toks : t.kind = "change" /\ t.user = uid}

PasswordResetTokens(toks, uid) == {t \in toks : t.kind = "reset" /\ t.user = uid}

\* C22: after every step a user has at most one password reset token, and a
\* password reset is confirmed only with the token issued last to that
\* user: no reset token of that user with a later id exists.
ResetRequestInvalidatesEarlier ==
    [][ /\ \A u \in accounts' : Cardinality(PasswordResetTokens(tokens', u.id)) <= 1
        /\ (last'.op = "confirm_reset" /\ last'.ok /\ nreq' = nreq + 1) =>
              \A t \in PasswordResetTokens(tokens, last'.user) : t.id <= last'.token
      ]_vars

\* The unused EmailVerificationToken rows of user uid.
UnusedVerificationTokens(toks, uid) ==
    {t \in toks : t.kind = "verify" /\ t.user = uid /\ ~t.is_used}

\* C23: every call of get_or_create_email_verification_token(user) returns
\* a token of that user that is unused and unexpired, and when the user had
\* a valid token before the call it returns one that existed already and
\* creates none.
GetOrCreateReturnsValidToken ==
    [][ (last'.op = "get_or_create_token" /\ nreq' = nreq + 1) =>
           /\ last'.ok
           /\ \E t \in TokenLookup(tokens', "verify", last'.token) :
                 t.user = last'.user /\ TokenIsValid(t)
           /\ (\E t \in UnusedVerificationTokens(tokens, last'.user) : TokenIsValid(t)) =>
                 /\ tokens' = tokens
                 /\ TokenLookup(tokens, "verify", last'.token) # {}
      ]_vars

\* C24: an account is created inactive; a login succeeds only for an active
\* account with the password given; and an account becomes active only in a
\* verify_user_email that succeeds with a token of that user that was valid.
InactiveUntilVerified ==
    [][ /\ \A v \in accounts' :
              UserById(accounts, v.id) = {} =>
                 ~v.is_active /\ last'.op = "register" /\ last'.user = v.id
        /\ (last'.op = "login" /\ last'.ok /\ nreq' = nreq + 1) =>
              \E u \in UserById(accounts, last'.user) : u.is_active
        /\ \A e \in Emails, pw \in Passwords :
              (login_user(e, pw) /\ \E u \in UserByEmail(accounts, e) : ~u.is_active) =>
                 ~last'.ok /\ accounts' = accounts
        /\ \A u \in accounts : \A v \in UserById(accounts', u.id) :
              (~u.is_active /\ v.is_active) =>
                 /\ last'.op = "verify" /\ last'.ok /\ last'.user = u.id
                 /\ \E t \in TokenLookup(tokens, "verify", last'.token) :
                       t.user = u.id /\ TokenIsValid(t)
      ]_vars

\* An account was verified and a login with it succeeded.
C24_Witness ==
    /\ last.op = "login" /\ last.ok
    /\ \E u \in UserById(accounts, last.user) :
          /\ u.is_active
          /\ \E t \in tokens : t.kind = "verify" /\ t.user = u.id /\ t.is_used
    /\ \E u \in accounts : ~u.is_active

\* C25: after every step no user has more than one primary address; when a
\* user without addresses gets one, it is primary; and when an address
\* becomes primary (a new one, or one that was not primary), every other
\* address of that user is not primary afterwards.
OnePrimaryAddress ==
    [][ \A u \in AddressOwners :
           /\ Cardinality(PrimaryAddresses(addresses', u)) <= 1
           /\ (UserAddresses(addresses, u) = {} /\ UserAddresses(addresses', u) # {}) =>
                 \A a \in UserAddresses(addresses', u) : a.is_primary
           /\ \A a \in PrimaryAddresses(addresses', u) :
                 a \notin addresses =>
                    \A b \in UserAddresses(addresses', u) : b.id # a.id => ~b.is_primary
      ]_vars

\* The primary flag moved: a user has two addresses and the primary one is
\* not the first one created, while the second user keeps a primary
\* address.
C25_Witness ==
    /\ \E a, b \in UserAddresses(addresses, "u1") :
          a.id < b.id /\ ~a.is_primary /\ b.is_primary
    /\ PrimaryAddresses(addresses, "u2") # {}
    /\ nextAddressId = 4

\* C26: after every step a user has at most MAX_ADDRESSES_PER_USER
\* addresses, and a user who had an address still has one; a create for a
\* user who has MAX_ADDRESSES_PER_USER addresses, and a delete of a user's
\* only address, leave the addresses as they were.
AddressCountWithinLimits ==
    [][ \A u \in AddressOwners :
           LET n == Cardinality(UserAddresses(addresses, u))
               m == Cardinality(UserAddresses(addresses', u))
           IN  /\ m <= MAX_ADDRESSES_PER_USER
               /\ n > 0 => m > 0
               /\ n = MAX_ADDRESSES_PER_USER =>
                     \A l \in CreateLabels(u), p \in BOOLEAN :
                        create_address(u, l, p) => UNCHANGED addrVars
               /\ n = 1 =>
                     \A id \in AddressIdInputs :
                        delete_address(u, id) => UNCHANGED addrVars
      ]_vars

\* A create was refused for a user who has MAX_ADDRESSES_PER_USER
\* addresses.
C26_Witness ==
    /\ Cardinality(UserAddresses(addresses, "u1")) = MAX_ADDRESSES_PER_USER
    /\ last.op = "create_address" /\ ~last.ok
    /\ nreq = MAX_ADDRESSES_PER_USER + 1

\* C30: in every state, a user who has addresses has a primary address.
SomePrimaryAddress ==
    \A u \in AddressOwners :
       UserAddresses(addresses, u) # {} => PrimaryAddresses(addresses, u) # {}

\* C27: an answered update of an item (the view update_cart_item or
\* CartService.update_cart_item_quantity) whose quantity is a whole number n:
\* when the item is in the caller's cart, n is in [1, 99] and n <= the
\* product's stock, the update succeeds and the line's quantity is n; when
\* the stock is 0 or n exceeds it, the update fails and the line is as it
\* was; in every case the line's unit price and all other lines are as they
\* were when the request arrived.
UpdateSetsQuantity ==
    \A r \in Slots :
       LET rq == req[r] IN
       (Done(r) /\ rq.op \in {"update", "service_update"} /\ IsIntegral(rq.raw)) =>
          \A line \in {i \in rq.items0 : i.id = rq.item_id} :
             LET n == PyInt(rq.raw).v
                 stock == products[line.product].stock_quantity
                 now == {i \in items : i.id = line.id}
             IN  /\ ( /\ line.cart = rq.cart
                      /\ n >= MinQuantity /\ n <= MaxQuantity /\ n <= stock )
                    => /\ rq.status = 200
                       /\ now = {[line EXCEPT !.quantity = n]}
                 /\ (stock = 0 \/ n > stock) =>
                       rq.status # 200 /\ now = {line}
                 /\ \A i \in now : i.unit_price = line.unit_price
                 /\ items \ now = rq.items0 \ {line}

\* An update through the view lowered a line from 98 to 1.
C27_Witness ==
    \E r \in Slots :
       /\ Done(r) /\ req[r].op = "update" /\ req[r].status = 200
       /\ \E line \in req[r].items0 :
             /\ line.id = req[r].item_id /\ line.quantity = 98
             /\ \E i \in items : i.id = line.id /\ i.quantity = 1

\* C28: every answered call of CartService.add_item_to_cart or
\* CartService.update_cart_item_quantity with a quantity outside [1, 99]
\* fails with the invalid-quantity outcome, and after it no line of any cart
\* has a quantity outside [1, 99].
ServiceEnforcesQuantityRange ==
    \A r \in Slots :
       LET rq == req[r] IN
       (Done(r) /\ rq.op \in {"service_add", "service_update"}) =>
          /\ (rq.quantity < MinQuantity \/ rq.quantity > MaxQuantity) =>
                rq.status = 400 /\ rq.error = "InvalidQuantity"
          /\ \A i \in items : i.quantity >= MinQuantity /\ i.quantity <= MaxQuantity

\* C29: in every state reached by requests running concurrently, no cart
\* has two lines for one product and every stored quantity is in [1, 99].
ConcurrentRequestsKeepLines ==
    /\ \A i \in items, j \in items :
          (i.cart = j.cart /\ i.product = j.product) => i.id = j.id
    /\ \A i \in items : ~(i.quantity < MinQuantity) /\ ~(i.quantity > MaxQuantity)

\* Two first-time adds of one product to one cart were in flight together:
\* both succeeded, one created the line, the other was given it, and the
\* cart has one line for the product.
C29_Witness ==
    \E r1 \in Slots, r2 \in Slots :
       LET a == req[r1]
           b == req[r2]
       IN  /\ r1 # r2 /\ Done(r1) /\ Done(r2) /\ Concurrent(r1, r2)
           /\ a.op = "add" /\ b.op = "add"
           /\ a.status = 200 /\ b.status = 200
           /\ a.cart = b.cart /\ a.product_id = b.product_id
           /\ ItemByProduct(a.items0, a.cart, a.product_id) = {}
           /\ ItemByProduct(b.items0, b.cart, b.product_id) = {}
           /\ a.created /\ ~b.created
           /\ Cardinality(ItemByProduct(items, a.cart, a.product_id)) = 1

====
